---- MODULE Spec2Model ----
(***************************************************************************)
(* Model of the Adler tour-booking backend (src/main.py): the booking      *)
(* submission workflow create_booking over a transactional store (tours,   *)
(* bookings), the Telegram notification of the guides' group, the public   *)
(* tour listing and the admin tour operations behind X-Admin-Token.        *)
(*                                                                         *)
(* The store is PostgreSQL reached through SQLAlchemy with the default     *)
(* isolation level: a SELECT reads the committed rows and takes no lock,   *)
(* rows inserted in an open transaction are private to it until COMMIT,    *)
(* and the id sequence of bookings is advanced outside transaction         *)
(* control (a rolled back INSERT does not give its value back).            *)
(***************************************************************************)
EXTENDS Integers, Sequences, FiniteSets, TLC

\* ---------------------------------------------------------------- bounds
MaxReqs == 2        \* concurrent create_booking calls
MaxTours == 3       \* rows the tours table can hold
MaxLen == 2         \* length of the enumerated GUIDES_CHAT_ID strings

Reqs == 1..MaxReqs

None == "None"

\* ------------------------------------------------------- process settings
\* values of the environment variable GUIDES_CHAT_ID that are enumerated
\* (a string is a sequence of characters)
Alphabet == { "7", "-", " ", "a" }
GuidesChatIdValues ==
    UNION { [1..n -> Alphabet] : n \in 0..MaxLen }
\* the chat id of a deployment that notifies the guides' group
GroupChatId == << "-", "7" >>

AdminTokenValues == { None, "", "s3cret" }
HeaderValues == { None, "", "s3cret", "wrong" }

VARIABLES
    engine,          \* TRUE iff DATABASE_URL was set (engine is not None)
    BOT_TOKEN,       \* TRUE iff TG_BOT_TOKEN was set to a non-empty value
    GUIDES_CHAT_ID,  \* [isset, chars]: os.environ.get("GUIDES_CHAT_ID")
    ADMIN_TOKEN,     \* os.environ.get("ADMIN_TOKEN")
    tours,           \* committed rows of table tours: [id, is_active]
    tourSeq,         \* last value of the id sequence of tours
    bookings,        \* committed rows of table bookings
    bookingSeq,      \* last value of the id sequence of bookings
    pc,              \* position of each create_booking call
    payload,         \* payload.tour_id of each call
    tour_row,        \* result of the lookup of the call: unbound/None/row
    booking_id,      \* result.scalar() of the call (0: not assigned)
    txn,             \* the call's transaction: none/open/committed/rolledback
    pending,         \* rows inserted by the call's open transaction
    resp,            \* response of the call
    outbound,        \* sendMessage calls made to the Telegram API
    lastList,        \* response of the latest list_tours call
    dirty,           \* an admin write was let through since that call
    lastAdmin        \* header and response of the latest admin call

vars == << engine, BOT_TOKEN, GUIDES_CHAT_ID, ADMIN_TOKEN, tours, tourSeq,
           bookings, bookingSeq, pc, payload, tour_row, booking_id, txn,
           pending, resp, outbound, lastList, dirty, lastAdmin >>

config == << engine, BOT_TOKEN, GUIDES_CHAT_ID, ADMIN_TOKEN >>
store == << tours, tourSeq, bookings, bookingSeq >>
calls == << pc, payload, tour_row, booking_id, txn, pending, resp >>
adminVars == << lastAdmin >>
listVars == << lastList, dirty >>

\* tour_id values a request may carry: the id of every tours row and one
\* that denotes no row yet
PayloadTourIds == 1..(tourSeq + 1)

\* ------------------------------------------------------------- responses
NoResp == [status |-> 0, detail |-> "", booking_id |-> 0]
OkResp(n) == [status |-> 200, detail |-> "ok", booking_id |-> n]
ErrResp(code, msg) == [status |-> code, detail |-> msg, booking_id |-> 0]

NotConfigured == ErrResp(500, "DATABASE_URL is not configured")
InvalidTour == ErrResp(400, "Invalid tour_id")
DbError == ErrResp(500, "str(e)")
Unhandled == ErrResp(500, "Internal Server Error")

\* ------------------------------------------------------------- int(...)
Digits == { "0", "1", "2", "3", "4", "5", "6", "7", "8", "9" }
Signs == { "-", "+" }

RECURSIVE StripLeft(_)
StripLeft(s) ==
    IF s # <<>> /\ Head(s) = " " THEN StripLeft(Tail(s)) ELSE s

RECURSIVE StripRight(_)
StripRight(s) ==
    IF s # <<>> /\ s[Len(s)] = " "
    THEN StripRight(SubSeq(s, 1, Len(s) - 1))
    ELSE s

\* a conversion that accepts every string
IntParsesAnything(s) == TRUE

\* int(s) of Python succeeds iff s, with surrounding whitespace removed and
\* one optional sign dropped, is a non-empty run of decimal digits
IntParses(s) ==
    LET t == StripRight(StripLeft(s))
        u == IF t # <<>> /\ Head(t) \in Signs THEN Tail(t) ELSE t
    IN  u # <<>> /\ \A i \in 1..Len(u) : u[i] \in Digits

\* ------------------------------------------------------------------ SQL
\* the lookup without its is_active condition
ActiveTourAnyState(tid) ==
    { t \in tours : t.id = tid }

\* SELECT id, title FROM tours WHERE id = :tour_id AND is_active = TRUE
ActiveTour(tid) ==
    { t \in tours : t.id = tid /\ t.is_active }

RECURSIVE OrderById(_)
OrderById(S) ==
    IF S = {} THEN <<>>
    ELSE LET m == CHOOSE x \in S : \A y \in S : x <= y
         IN  <<m>> \o OrderById(S \ {m})

\* the listing without its is_active condition
SelectToursUnfiltered ==
    OrderById({ t.id : t \in tours })

\* SELECT ... FROM tours WHERE is_active = TRUE ORDER BY id
SelectActiveTours ==
    OrderById({ t.id : t \in { u \in tours : u.is_active } })

\* an id taken from the committed rows instead of the sequence
MaxCommittedIdPlusOne ==
    1 + Cardinality({ i \in 1..bookingSeq : \E b \in bookings : b.id >= i })

\* nextval of the id sequence of bookings
NextBookingId == bookingSeq + 1

\* leaving the block without a COMMIT (engine.connect() for engine.begin())
CommitDropsRows(r) == bookings

\* the rows of bookings after the with block of engine.begin() is left
\* normally: COMMIT
CommitRows(r) == bookings \cup pending[r]

\* an exception that leaves the rows of the transaction behind
RollbackKeepsRows(r) == bookings \cup pending[r]

\* the rows of bookings after the with block is left by an exception:
\* ROLLBACK
RollbackRows(r) == bookings

\* a handler that goes on without an engine
EngineNeverMissing == FALSE

\* if engine is None
EngineMissing == ~engine

\* ------------------------------------------------------- authorization
\* the comparison of the header alone
require_admin_header_only(token) ==
    token = ADMIN_TOKEN

\* passes iff ADMIN_TOKEN is set to a non-empty value and the header
\* X-Admin-Token equals it
require_admin(token) ==
    ~ (ADMIN_TOKEN = None \/ ADMIN_TOKEN = "" \/ token # ADMIN_TOKEN)

\* ----------------------------------------------------------------- Init
\* the store and the handlers when the process starts
InitState ==
    /\ tours = { [id |-> 1, is_active |-> TRUE],
                 [id |-> 2, is_active |-> FALSE] }
    /\ tourSeq = 2
    /\ bookings = {}
    /\ bookingSeq = 0
    /\ pc = [r \in Reqs |-> "idle"]
    /\ payload = [r \in Reqs |-> 0]
    /\ tour_row = [r \in Reqs |-> "unbound"]
    /\ booking_id = [r \in Reqs |-> 0]
    /\ txn = [r \in Reqs |-> "none"]
    /\ pending = [r \in Reqs |-> {}]
    /\ resp = [r \in Reqs |-> NoResp]
    /\ outbound = {}
    /\ lastList = [status |-> 0, rows |-> <<>>]
    /\ dirty = FALSE
    /\ lastAdmin = [token |-> None, status |-> 0]

\* a deployment with or without the store; the bot token, the chat id and
\* the admin token are set
Init ==
    /\ engine \in BOOLEAN
    /\ BOT_TOKEN = TRUE
    /\ GUIDES_CHAT_ID = [isset |-> TRUE, chars |-> GroupChatId]
    /\ ADMIN_TOKEN = "s3cret"
    /\ InitState

\* ------------------------------------------------------- create_booking
\* the request arrives; without an engine it is refused at once, otherwise
\* engine.begin() opens the transaction
Submit(r, tid) ==
    /\ pc[r] = "idle"
    /\ payload' = [payload EXCEPT ![r] = tid]
    /\ IF EngineMissing
       THEN /\ pc' = [pc EXCEPT ![r] = "done"]
            /\ resp' = [resp EXCEPT ![r] = NotConfigured]
            /\ txn' = txn
       ELSE /\ pc' = [pc EXCEPT ![r] = "select"]
            /\ txn' = [txn EXCEPT ![r] = "open"]
            /\ resp' = resp
    /\ UNCHANGED << config, store, tour_row, booking_id, pending, outbound,
                    listVars, adminVars >>

\* the lookup of the active tour; no row: HTTPException(400) leaves the
\* with block, which rolls the transaction back
SelectTour(r) ==
    /\ pc[r] = "select"
    /\ IF ActiveTour(payload[r]) = {}
       THEN /\ pc' = [pc EXCEPT ![r] = "done"]
            /\ txn' = [txn EXCEPT ![r] = "rolledback"]
            /\ resp' = [resp EXCEPT ![r] = InvalidTour]
            /\ tour_row' = [tour_row EXCEPT ![r] = "None"]
       ELSE /\ pc' = [pc EXCEPT ![r] = "insert"]
            /\ tour_row' = [tour_row EXCEPT ![r] = "row"]
            /\ UNCHANGED << txn, resp >>
    /\ UNCHANGED << config, store, payload, booking_id, pending, outbound,
                    listVars, adminVars >>

\* INSERT INTO bookings ... RETURNING id, inside the open transaction
InsertBooking(r) ==
    /\ pc[r] = "insert"
    /\ bookingSeq' = NextBookingId
    /\ booking_id' = [booking_id EXCEPT ![r] = NextBookingId]
    /\ pending' = [pending EXCEPT ![r] =
                      { [id |-> NextBookingId, tour_id |-> payload[r],
                         client |-> r, status |-> "new"] }]
    /\ pc' = [pc EXCEPT ![r] = "commit"]
    /\ UNCHANGED << config, tours, tourSeq, bookings, payload, tour_row, txn,
                    resp, outbound, listVars, adminVars >>

\* the with block ends normally: COMMIT
Commit(r) ==
    /\ pc[r] = "commit"
    /\ bookings' = CommitRows(r)
    /\ pending' = [pending EXCEPT ![r] = {}]
    /\ txn' = [txn EXCEPT ![r] = "committed"]
    /\ pc' = [pc EXCEPT ![r] = "notify"]
    /\ UNCHANGED << config, tours, tourSeq, bookingSeq, payload, tour_row,
                    booking_id, resp, outbound, listVars, adminVars >>

\* a statement of the transaction (the lookup, the INSERT or the COMMIT)
\* raises: the with block rolls back and the handler answers 500 with the
\* text of the error.  A failing INSERT may already have advanced the
\* sequence.
DbFailure(r, consumed) ==
    /\ pc[r] \in { "select", "insert", "commit" }
    /\ consumed => pc[r] = "insert"
    /\ bookingSeq' = IF consumed THEN NextBookingId ELSE bookingSeq
    /\ bookings' = RollbackRows(r)
    /\ pending' = [pending EXCEPT ![r] = {}]
    /\ txn' = [txn EXCEPT ![r] = "rolledback"]
    /\ pc' = [pc EXCEPT ![r] = "done"]
    /\ resp' = [resp EXCEPT ![r] = DbError]
    /\ UNCHANGED << config, tours, tourSeq, payload, tour_row,
                    booking_id, outbound, listVars, adminVars >>

\* ------------------------------------------- notify_guides and the reply
NotifyConfigured ==
    /\ BOT_TOKEN
    /\ GUIDES_CHAT_ID.isset
    /\ GUIDES_CHAT_ID.chars # <<>>
    /\ IntParses(GUIDES_CHAT_ID.chars)

\* await notify_guides(guides_text): without the bot token or the chat id,
\* or with a chat id int() rejects, it returns at once and the handler
\* answers; otherwise send_telegram_message posts sendMessage
NotifyGuides(r) ==
    /\ pc[r] = "notify"
    /\ IF NotifyConfigured
       THEN /\ outbound' = outbound \cup
                  { [req |-> r, booking_id |-> booking_id[r]] }
            /\ pc' = [pc EXCEPT ![r] = "sending"]
            /\ resp' = resp
       ELSE /\ outbound' = outbound
            /\ pc' = [pc EXCEPT ![r] = "done"]
            /\ resp' = [resp EXCEPT ![r] = OkResp(booking_id[r])]
    /\ UNCHANGED << config, store, payload, tour_row, booking_id, txn,
                    pending, listVars, adminVars >>

SendOutcomes == { "ok", "http_error", "transport_error" }

\* what the handler does with the outcome of client.post: a response of any
\* status is dropped, an exception of the transport is not caught anywhere
ReplyAfterSend(r, outcome) ==
    IF outcome = "transport_error" THEN Unhandled ELSE OkResp(booking_id[r])

\* client.post(".../sendMessage") completes
SendComplete(r, outcome) ==
    /\ pc[r] = "sending"
    /\ pc' = [pc EXCEPT ![r] = "done"]
    /\ resp' = [resp EXCEPT ![r] = ReplyAfterSend(r, outcome)]
    /\ UNCHANGED << config, store, payload, tour_row, booking_id, txn,
                    pending, outbound, listVars, adminVars >>

\* ------------------------------------------------------------ list_tours
ListTours ==
    /\ lastList' = IF EngineMissing
                   THEN [status |-> 500, rows |-> <<>>]
                   ELSE [status |-> 200, rows |-> SelectActiveTours]
    /\ dirty' = FALSE
    /\ UNCHANGED << config, store, calls, outbound, adminVars >>

\* ------------------------------------------------------------ admin tours
AdminStatus(token) ==
    IF ~require_admin(token) THEN 401
    ELSE IF EngineMissing THEN 500 ELSE 200

AdminListTours(token) ==
    /\ lastAdmin' = [token |-> token, status |-> AdminStatus(token)]
    /\ UNCHANGED << config, store, calls, outbound, listVars >>

AdminCreateTour(token, active) ==
    /\ AdminStatus(token) = 200 => tourSeq < MaxTours
    /\ lastAdmin' = [token |-> token, status |-> AdminStatus(token)]
    /\ IF AdminStatus(token) = 200
       THEN /\ tourSeq' = tourSeq + 1
            /\ tours' = tours \cup
                  { [id |-> tourSeq + 1, is_active |-> active] }
            /\ dirty' = TRUE
       ELSE UNCHANGED << tourSeq, tours, dirty >>
    /\ UNCHANGED << config, bookings, bookingSeq, calls, outbound, lastList >>

\* PATCH /admin/tours/{tour_id} with is_active in the body
AdminUpdateTour(token, tid, active) ==
    LET found == \E t \in tours : t.id = tid
        status == IF AdminStatus(token) # 200 THEN AdminStatus(token)
                  ELSE IF found THEN 200 ELSE 404
    IN  /\ lastAdmin' = [token |-> token, status |-> status]
        /\ IF status = 200
           THEN /\ tours' = { IF t.id = tid
                              THEN [t EXCEPT !.is_active = active]
                              ELSE t : t \in tours }
                /\ dirty' = TRUE
           ELSE UNCHANGED << tours, dirty >>
        /\ UNCHANGED << config, tourSeq, bookings, bookingSeq, calls,
                        outbound, lastList >>

\* ----------------------------------------------------------------- Next
\* concurrent submissions while an admin holding the token edits the tours
Next ==
    \/ \E r \in Reqs, tid \in PayloadTourIds : Submit(r, tid)
    \/ \E r \in Reqs : SelectTour(r)
    \/ \E r \in Reqs : InsertBooking(r)
    \/ \E r \in Reqs : Commit(r)
    \/ \E r \in Reqs, consumed \in BOOLEAN : DbFailure(r, consumed)
    \/ \E r \in Reqs : NotifyGuides(r)
    \/ \E r \in Reqs, o \in SendOutcomes : SendComplete(r, o)
    \/ \E tid \in { t.id : t \in tours }, a \in BOOLEAN :
          AdminUpdateTour(ADMIN_TOKEN, tid, a)

Spec == Init /\ [][Next]_vars

\* one submission under every setting of the bot token and the chat id
InitNotify ==
    /\ engine = TRUE
    /\ BOT_TOKEN \in BOOLEAN
    /\ GUIDES_CHAT_ID \in
          { [isset |-> FALSE, chars |-> <<>>] } \cup
          { [isset |-> TRUE, chars |-> c] : c \in GuidesChatIdValues }
    /\ ADMIN_TOKEN = "s3cret"
    /\ InitState

NextNotify ==
    \/ \E tid \in PayloadTourIds : Submit(1, tid)
    \/ SelectTour(1)
    \/ InsertBooking(1)
    \/ Commit(1)
    \/ \E consumed \in BOOLEAN : DbFailure(1, consumed)
    \/ NotifyGuides(1)
    \/ \E o \in SendOutcomes : SendComplete(1, o)

SpecNotify == InitNotify /\ [][NextNotify]_vars

\* the public listing, one submission and admin requests with any header,
\* under every setting of the admin token
InitAdmin ==
    /\ engine \in BOOLEAN
    /\ BOT_TOKEN = TRUE
    /\ GUIDES_CHAT_ID = [isset |-> TRUE, chars |-> GroupChatId]
    /\ ADMIN_TOKEN \in AdminTokenValues
    /\ InitState

NextAdmin ==
    \/ \E tid \in PayloadTourIds : Submit(1, tid)
    \/ SelectTour(1)
    \/ InsertBooking(1)
    \/ Commit(1)
    \/ \E consumed \in BOOLEAN : DbFailure(1, consumed)
    \/ NotifyGuides(1)
    \/ \E o \in SendOutcomes : SendComplete(1, o)
    \/ ListTours
    \/ \E h \in HeaderValues : AdminListTours(h)
    \/ \E h \in HeaderValues, a \in BOOLEAN : AdminCreateTour(h, a)
    \/ \E h \in HeaderValues, tid \in PayloadTourIds, a \in BOOLEAN :
          AdminUpdateTour(h, tid, a)

SpecAdmin == InitAdmin /\ [][NextAdmin]_vars

\* ================================================================ claims
RowsOf(r) == { b \in bookings : b.client = r }
NoActiveTour(tid) == ~ \E t \in tours : t.id = tid /\ t.is_active

\* ---- C1
C1_Rejected ==
    \A r \in Reqs :
        tour_row[r] = "None" =>
            /\ pc[r] = "done"
            /\ resp[r] = InvalidTour
            /\ txn[r] = "rolledback"
            /\ RowsOf(r) = {}
            /\ pending[r] = {}

C1_LookupStep ==
    \A r \in Reqs :
        ( /\ tour_row[r] = "unbound"
          /\ tour_row'[r] # "unbound"
          /\ NoActiveTour(payload[r]) ) =>
            /\ tour_row'[r] = "None"
            /\ resp'[r] = InvalidTour
            /\ bookings' = bookings

\* C1: a create_booking call whose lookup runs while its tour_id denotes no
\* tours row, or a row with is_active = FALSE, leaves the bookings rows as
\* they were and is answered 400 'Invalid tour_id'; the call never owns a
\* bookings row.
C1_InvalidTourRejected ==
    []C1_Rejected /\ [][C1_LookupStep]_vars

C1_Witness ==
    \E r \in Reqs :
        /\ resp[r] = InvalidTour
        /\ \E t \in tours : t.id = payload[r] /\ ~t.is_active
        /\ bookings # {}

\* ---- C2
C2_OneRow ==
    \A r \in Reqs :
        resp[r].status = 200 =>
            /\ Cardinality(RowsOf(r)) = 1
            /\ \A b \in RowsOf(r) :
                  /\ b.id = resp[r].booking_id
                  /\ b.status = "new"
                  /\ b.tour_id = payload[r]
            /\ \A q \in Reqs \ {r} :
                  resp[q].status = 200 =>
                      resp[q].booking_id # resp[r].booking_id

C2_FreshId ==
    \A r \in Reqs :
        booking_id'[r] # booking_id[r] =>
            /\ \A q \in Reqs : booking_id'[r] > booking_id[q]
            /\ \A b \in bookings : booking_id'[r] > b.id

\* C2: a create_booking call answered {ok: true, booking_id: n} has added
\* exactly one bookings row, with id n, status 'new' and the submitted
\* tour_id, and n is greater than every id assigned before it, so that no
\* two calls are answered with the same id, in any interleaving.
C2_OneFreshRow ==
    []C2_OneRow /\ [][C2_FreshId]_vars

C2_Witness ==
    \E r, q \in Reqs :
        /\ r # q
        /\ resp[r].status = 200
        /\ resp[q].status = 200
        /\ resp[r].booking_id < resp[q].booking_id

\* ---- C3
\* C3: once the transaction of a create_booking call has committed, the
\* call is answered {ok: true, booking_id} with the committed id, whatever
\* the outcome of the notification.
C3_NotifyFailureAbsorbed ==
    \A r \in Reqs :
        (pc[r] = "done" /\ txn[r] = "committed") =>
            resp[r] = OkResp(booking_id[r])

\* ---- C4
\* C4: a create_booking call that found its tour active and did not commit
\* was rolled back, is answered 500 with the text of the error, and owns no
\* bookings row that a later read can see.
C4_Atomic ==
    \A r \in Reqs :
        (tour_row[r] = "row" /\ pc[r] = "done" /\ txn[r] # "committed") =>
            /\ txn[r] = "rolledback"
            /\ resp[r] = DbError
            /\ pending[r] = {}
            /\ RowsOf(r) = {}

C4_Witness ==
    \E r \in Reqs :
        /\ tour_row[r] = "row"
        /\ resp[r] = DbError
        /\ booking_id[r] # 0
        /\ RowsOf(r) = {}

\* ---- C5
C5_CommitStep ==
    \A b \in bookings' \ bookings :
        \E t \in tours : t.id = b.tour_id /\ t.is_active

\* C5: every bookings row is committed while its tour is active: no row is
\* committed for a tour that a committed admin update has deactivated.
C5_ActiveAtCommit ==
    [][C5_CommitStep]_vars

\* ---- C6
\* C6: every sendMessage call belongs to a create_booking call whose
\* transaction has committed and whose row is in bookings; a call that
\* failed without a commit has made none.
C6_NotifyAfterCommit ==
    /\ \A m \in outbound :
          /\ txn[m.req] = "committed"
          /\ \E b \in bookings : b.id = m.booking_id /\ b.client = m.req
    /\ \A r \in Reqs :
          (pc[r] = "done" /\ txn[r] # "committed") =>
              /\ resp[r].status \in { 400, 500 }
              /\ ~ \E m \in outbound : m.req = r

C6_Witness ==
    /\ outbound # {}
    /\ \E r \in Reqs : pc[r] = "done" /\ txn[r] = "rolledback"

\* ---- C7
C7_Refused ==
    ~engine =>
        /\ bookings = {}
        /\ outbound = {}
        /\ \A r \in Reqs :
              /\ txn[r] = "none"
              /\ pending[r] = {}
              /\ tour_row[r] = "unbound"
              /\ pc[r] \in { "idle", "done" }
              /\ pc[r] = "done" => resp[r] = NotConfigured

C7_NoEffect ==
    ~engine => UNCHANGED << tours, tourSeq, bookings, bookingSeq, outbound >>

\* C7: without an engine every create_booking call is answered 500
\* 'DATABASE_URL is not configured' with no transaction opened, no
\* statement run, no sendMessage call and the tours and bookings unchanged.
C7_NoEngineFailsFast ==
    []C7_Refused /\ [][C7_NoEffect]_vars

C7_Witness ==
    /\ ~engine
    /\ \A r \in Reqs : resp[r] = NotConfigured

\* ---- C8
\* the texts that denote an integer: spaces, one optional sign, digits,
\* spaces
IsIntegerText(s) ==
    \E i, j \in 1..Len(s) :
        /\ i <= j
        /\ \A k \in 1..(i - 1) : s[k] = " "
        /\ \A k \in (j + 1)..Len(s) : s[k] = " "
        /\ s[i] \in Digits \cup Signs
        /\ s[i] \in Signs => i < j
        /\ \A k \in (i + 1)..j : s[k] \in Digits

NotificationSet ==
    /\ BOT_TOKEN
    /\ GUIDES_CHAT_ID.isset
    /\ IsIntegerText(GUIDES_CHAT_ID.chars)

\* C8: without the bot token or the chat id, or with a chat id that is not
\* an integer, no sendMessage call is made and no error is raised: a
\* committed create_booking call is answered {ok: true, booking_id}.
C8_SilentNoOp ==
    ~NotificationSet =>
        /\ outbound = {}
        /\ \A r \in Reqs :
              /\ pc[r] # "sending"
              /\ resp[r] # Unhandled
              /\ (pc[r] = "done" /\ txn[r] = "committed") =>
                    /\ resp[r] = OkResp(booking_id[r])
                    /\ \E b \in bookings : b.id = booking_id[r]

C8_Witness ==
    /\ BOT_TOKEN
    /\ GUIDES_CHAT_ID.isset
    /\ GUIDES_CHAT_ID.chars # <<>>
    /\ ~NotificationSet
    /\ \E r \in Reqs : resp[r].status = 200

\* ---- C9
C9_ActiveInOrder ==
    (lastList.status = 200 /\ ~dirty) =>
        /\ \A i, j \in 1..Len(lastList.rows) :
              i < j => lastList.rows[i] < lastList.rows[j]
        /\ { lastList.rows[i] : i \in 1..Len(lastList.rows) } =
              { t.id : t \in { u \in tours : u.is_active } }

C9_Repeatable ==
    /\ (lastList.status = 200 /\ ~dirty /\ ~dirty') => lastList' = lastList
    /\ tours' # tours => dirty'

\* C9: list_tours returns the active tours in ascending id order; with no
\* admin write since the previous call it returns the same rows again,
\* whatever create_booking calls ran in between, and only admin writes
\* change the tours.
C9_ListIdempotent ==
    []C9_ActiveInOrder /\ [][C9_Repeatable]_vars

C9_Witness ==
    /\ lastList.status = 200
    /\ ~dirty
    /\ Len(lastList.rows) = 1
    /\ \E t \in tours : ~t.is_active
    /\ bookings # {}

\* ---- C10
C10_Authorized ==
    lastAdmin.status \notin { 0, 401 } =>
        /\ lastAdmin.token = ADMIN_TOKEN
        /\ ADMIN_TOKEN # None

C10_RefusedStep ==
    (lastAdmin' # lastAdmin /\ lastAdmin'.status = 401) =>
        UNCHANGED << tours, tourSeq, bookings, bookingSeq, dirty >>

\* C10: an admin request is carried out only if its X-Admin-Token header
\* equals the configured ADMIN_TOKEN; otherwise, and whenever ADMIN_TOKEN is
\* not set, it is answered 401 and changes no tours or bookings row.
C10_AdminOnly ==
    []C10_Authorized /\ [][C10_RefusedStep]_vars

C10_Witness ==
    /\ lastAdmin.status = 401
    /\ lastAdmin.token = "wrong"
    /\ ADMIN_TOKEN = "s3cret"
    /\ Cardinality(tours) = 3

====
